---- MODULE Spec2Model ----
(***************************************************************************)
(* Model of matrix_factorization/matrix_factorization.py, the class         *)
(* MatrixFactorization: construction, sgd, error, train, the accessors      *)
(* and the two prediction queries.                                          *)
(*                                                                          *)
(* Numbers.  The program computes in float64.  The model computes in fixed  *)
(* point: a real x is the integer x*Scale, a product of two reals is        *)
(* rounded down to a multiple of 1/Scale (Mul), and the values that are not *)
(* finite numbers (0/0 and x/0) are kept apart (NaN, NegInf).  Indices are  *)
(* 0-based as in the program, so that negative indices can be modelled.     *)
(***************************************************************************)
EXTENDS Integers, Sequences, FiniteSets, TLC

VARIABLES
    pc,         \* "start" | "constructed" | "loop" | "trained" | "raised"
    R,          \* self.__R
    K,          \* self.__K
    a,          \* self.__a
    b,          \* self.__b
    user_size,  \* self.__user_size
    item_size,  \* self.__item_size
    mu,         \* self.__mu
    obs_index,  \* self.__obs_index
    attrs,      \* which of __U, __V, __bu, __bi exist on the instance
    U, V, bu, bi,   \* self.__U, self.__V, self.__bu, self.__bi
    atol, maxitr, step,     \* arguments of the running train call
    diff, err_new, err_old, \* locals of train
    pairs,      \* locals ius, iis of train, as one sequence of <<iu, ii>>
    i,          \* loop variable of train: index of the next iteration
    U0, V0,     \* history: the random U and V drawn at the start of train
    nsgd,       \* history: sgd calls made by the current train call
    nchk,       \* history: convergence checks made by the current train call
    chkAt,      \* history: value of nsgd at the last convergence check
    chkPrev,    \* history: value of nsgd at the error evaluation before it
    exit,       \* history: how the last train call left its loop
    op,         \* history: the last operation and its arguments
    ret,        \* what the last query returned or raised
    nwrites     \* history: caller writes made through an accessor

model   == <<R, K, a, b, user_size, item_size, mu, obs_index>>
params  == <<attrs, U, V, bu, bi>>
locals  == <<atol, maxitr, step, diff, err_new, err_old, pairs, i>>
history == <<U0, V0, nsgd, nchk, chkAt, chkPrev, exit>>
vars    == <<pc, model, params, locals, history, op, ret, nwrites>>

----------------------------------------------------------------------------
(* Bounds of the model *)

Scale    == 64      \* fixed-point units per 1.0
MaxItr   == 4       \* largest maxitr passed to train
MaxStep  == 2       \* largest step passed to train
MaxWrites == 1      \* caller writes through an accessor

Shape        == <<2, 2>>            \* shape of R
RatingValues == {0, 2}              \* cell values of R (0 = missing)
SignedValues == {-1, 0, 1, 2}       \* cell values, ratings of any sign
Ks           == {1}
As           == {Scale \div 4}
Bs           == {Scale \div 2}
Atols        == {1, Scale \div 8}   \* values of atol
RandValues   == {0, Scale \div 2}   \* values np.random.rand may return
WriteValues  == {3 * Scale}         \* values a caller stores into an array
WriteRows    == {0}                 \* rows a caller stores into
QueryMaxItr  == MaxItr - 3          \* largest maxitr where queries are explored
QueryRand    == {Scale \div 2}      \* np.random.rand values where queries are explored
QueryIndices == {-3, -1, 0, 2}      \* indices passed to rating

----------------------------------------------------------------------------
(* float64 values *)

Fin(x)   == [k |-> "fin", v |-> x]
NaN      == [k |-> "nan", v |-> 0]
NegInf   == [k |-> "ninf", v |-> 0]

FP(r)     == r * Scale
Mul(x, y) == (x * y) \div Scale
Abs(x)    == IF x < 0 THEN -x ELSE x

RECURSIVE SumTo(_, _)
\* f[0] + ... + f[n-1]
SumTo(f, n) == IF n <= 0 THEN 0 ELSE f[n-1] + SumTo(f, n-1)

RECURSIVE SqrtBetween(_, _, _)
SqrtBetween(n, lo, hi) ==
    IF lo >= hi THEN lo
    ELSE LET mid == (lo + hi + 1) \div 2
         IN  IF mid * mid <= n THEN SqrtBetween(n, mid, hi)
                               ELSE SqrtBetween(n, lo, mid - 1)

\* np.sqrt of a fixed-point number, rounded down
Sqrt(x) == SqrtBetween(x * Scale, 0, IF x * Scale < 40000 THEN x * Scale ELSE 40000)

\* np.dot of two vectors of length n
Dot(u, v, n) == SumTo([k \in 0..(n-1) |-> Mul(u[k], v[k])], n)

Cells(nu, ni) == (0..(nu-1)) \X (0..(ni-1))

\* np.sum over a nu x ni array
SumCells(f, nu, ni) ==
    SumTo([p \in 0..(nu-1) |-> SumTo([q \in 0..(ni-1) |-> f[p][q]], ni)], nu)

Matrices(vals) == [0..(Shape[1]-1) -> [0..(Shape[2]-1) -> vals]]

----------------------------------------------------------------------------
(* __init__ *)

\* np.sum(self.__R)/np.sum(self.__R > 0)
MeanRating(Rm, nu, ni) ==
    LET total == SumCells(Rm, nu, ni)
        count == SumCells([p \in 0..(nu-1) |-> [q \in 0..(ni-1) |->
                                IF Rm[p][q] > 0 THEN 1 ELSE 0]], nu, ni)
    IN  IF count # 0 THEN Fin((total * Scale) \div count)
        ELSE IF total < 0 THEN NegInf
        ELSE NaN

\* (self.__R != 0).astype(int)
ObsIndex(Rm, nu, ni) ==
    [p \in 0..(nu-1) |-> [q \in 0..(ni-1) |-> IF Rm[p][q] # 0 THEN 1 ELSE 0]]

NoArray == <<>>

Init ==
    /\ pc = "start"
    /\ R = NoArray /\ K = 0 /\ a = 0 /\ b = 0
    /\ user_size = 0 /\ item_size = 0
    /\ mu = Fin(0) /\ obs_index = NoArray
    /\ attrs = {}
    /\ U = NoArray /\ V = NoArray /\ bu = NoArray /\ bi = NoArray
    /\ atol = 0 /\ maxitr = 0 /\ step = 1
    /\ diff = Fin(0) /\ err_new = Fin(0) /\ err_old = Fin(0)
    /\ pairs = <<>> /\ i = 0
    /\ U0 = NoArray /\ V0 = NoArray
    /\ nsgd = 0 /\ nchk = 0 /\ chkAt = 0 /\ chkPrev = 0 /\ exit = "none"
    /\ op = <<"none">> /\ ret = <<"none">>
    /\ nwrites = 0

\* MatrixFactorization(Rm, Kv, av, bv)
Construct(Rm, Kv, av, bv) ==
    /\ pc = "start"
    /\ pc' = "constructed"
    /\ R' = Rm /\ K' = Kv /\ a' = av /\ b' = bv
    /\ user_size' = Shape[1]
    /\ item_size' = Shape[2]
    /\ mu' = MeanRating(Rm, Shape[1], Shape[2])
    /\ obs_index' = ObsIndex(Rm, Shape[1], Shape[2])
    /\ op' = <<"init">>
    /\ UNCHANGED <<params, locals, history, ret, nwrites>>

----------------------------------------------------------------------------
(* sgd and error, as functions of the parameters P = [U, V, bu, bi] *)

Params == [U |-> U, V |-> V, bu |-> bu, bi |-> bi]

\* predicted rating of cell (p, q)
Predict(P, p, q) == mu.v + P.bu[p] + P.bi[q] + Dot(P.U[p], P.V[q], K)

\* sgd with the two bias updates written without their index, so that they
\* shift every entry of bu and bi
SgdAllBias(P, iu, ii) ==
    LET eui  == FP(R[iu][ii]) - Predict(P, iu, ii)
        Urow == [k \in 0..(K-1) |->
                    P.U[iu][k] - Mul(a, Mul(-2 * eui, P.V[ii][k]) + Mul(b, P.U[iu][k]))]
        U1   == [P.U EXCEPT ![iu] = Urow]
        Vrow == [k \in 0..(K-1) |->
                    P.V[ii][k] - Mul(a, Mul(-2 * eui, U1[iu][k]) + Mul(b, P.V[ii][k]))]
        V1   == [P.V EXCEPT ![ii] = Vrow]
        bu1  == [p \in DOMAIN P.bu |-> P.bu[p] - Mul(a, -2 * eui + Mul(b, P.bu[p]))]
        bi1  == [q \in DOMAIN P.bi |-> P.bi[q] - Mul(a, -2 * eui + Mul(b, P.bi[q]))]
    IN  [U |-> U1, V |-> V1, bu |-> bu1, bi |-> bi1]

\* the parameters after sgd(iu, ii); every assignment reads the arrays as
\* the assignments before it left them
Sgd(P, iu, ii) ==
    LET eui  == FP(R[iu][ii]) - Predict(P, iu, ii)
        Urow == [k \in 0..(K-1) |->
                    P.U[iu][k] - Mul(a, Mul(-2 * eui, P.V[ii][k]) + Mul(b, P.U[iu][k]))]
        U1   == [P.U EXCEPT ![iu] = Urow]
        Vrow == [k \in 0..(K-1) |->
                    P.V[ii][k] - Mul(a, Mul(-2 * eui, U1[iu][k]) + Mul(b, P.V[ii][k]))]
        V1   == [P.V EXCEPT ![ii] = Vrow]
        bu1  == [P.bu EXCEPT ![iu] = P.bu[iu] - Mul(a, -2 * eui + Mul(b, P.bu[iu]))]
        bi1  == [P.bi EXCEPT ![ii] = P.bi[ii] - Mul(a, -2 * eui + Mul(b, P.bi[ii]))]
    IN  [U |-> U1, V |-> V1, bu |-> bu1, bi |-> bi1]

\* np.sum(X**2) for the four parameter arrays
SumSquares(P) ==
      SumCells([p \in 0..(user_size-1) |-> [k \in 0..(K-1) |->
                    Mul(P.U[p][k], P.U[p][k])]], user_size, K)
    + SumCells([q \in 0..(item_size-1) |-> [k \in 0..(K-1) |->
                    Mul(P.V[q][k], P.V[q][k])]], item_size, K)
    + SumTo([p \in 0..(user_size-1) |-> Mul(P.bu[p], P.bu[p])], user_size)
    + SumTo([q \in 0..(item_size-1) |-> Mul(P.bi[q], P.bi[q])], item_size)

\* error()
Error(P) ==
    IF mu.k # "fin" THEN NaN
    ELSE LET D   == [p \in 0..(user_size-1) |-> [q \in 0..(item_size-1) |->
                        (FP(R[p][q]) - Predict(P, p, q)) * obs_index[p][q]]]
             sq  == SumCells([p \in 0..(user_size-1) |-> [q \in 0..(item_size-1) |->
                        Mul(D[p][q], D[p][q])]], user_size, item_size)
             reg == (b * SumSquares(P)) \div (2 * Scale)
         IN  Fin(Sqrt(sq + reg))

\* np.fabs(x - y)
Fabs(x, y) == IF x.k = "fin" /\ y.k = "fin" THEN Fin(Abs(x.v - y.v)) ELSE NaN

\* x < t for a float x; every comparison with NaN is False
Less(x, t) == x.k = "fin" /\ x.v < t

----------------------------------------------------------------------------
(* train *)

RECURSIVE NonzeroFrom(_, _, _, _)
\* the nonzero cells of Rm from cell number c on, in row-major order
NonzeroFrom(Rm, nu, ni, c) ==
    IF c >= nu * ni THEN <<>>
    ELSE LET p == c \div ni
             q == c % ni
         IN  (IF Rm[p][q] # 0 THEN << <<p, q>> >> ELSE <<>>)
                \o NonzeroFrom(Rm, nu, ni, c + 1)

\* the pair list taken from every cell of Rm instead of the nonzero ones
EveryCell(Rm, nu, ni) == [c \in 1..(nu * ni) |-> <<(c - 1) \div ni, (c - 1) % ni>>]

\* self.__R.nonzero()
Nonzero(Rm, nu, ni) == NonzeroFrom(Rm, nu, ni, 0)

\* a range that also yields n
InRangeInclusive(j, n) == j <= n

\* does range(n) yield index j
InRange(j, n) == j < n

\* the test that selects the iterations with a convergence check
CheckDue(j, st) == j % st = 0 /\ j > 0

\* the arrays np.random.rand(n, K) may return, with entries among vals
RandArrays(n, vals) == [0..(n-1) -> [0..(K-1) -> vals]]

\* train(atol, maxitr, step) up to the loop, lines 87-98; Ur and Vr are the
\* arrays the two calls of np.random.rand return
TrainStart(tol, itr, st, Ur, Vr) ==
    /\ pc \in {"constructed", "trained"}
    /\ LET P0 == [U  |-> Ur, V |-> Vr,
                  bu |-> [p \in 0..(user_size-1) |-> 0],
                  bi |-> [q \in 0..(item_size-1) |-> 0]]
       IN  /\ U' = P0.U /\ V' = P0.V /\ bu' = P0.bu /\ bi' = P0.bi
           /\ U0' = Ur /\ V0' = Vr
           /\ err_new' = Error(P0)
    /\ attrs' = {"U", "V", "bu", "bi"}
    /\ atol' = tol /\ maxitr' = itr /\ step' = st
    /\ diff' = Fin(tol * 1000)
    /\ err_old' = Fin(0)
    /\ pairs' = Nonzero(R, user_size, item_size)
    /\ i' = 0
    /\ nsgd' = 0 /\ nchk' = 0 /\ chkAt' = 0 /\ chkPrev' = 0
    /\ IF InRange(0, itr)
         THEN pc' = "loop" /\ exit' = "none"
         ELSE pc' = "trained" /\ exit' = "exhausted"
    /\ op' = <<"train">>
    /\ ret' = <<"none">>
    /\ nwrites' = 0
    /\ UNCHANGED model

\* the first train call on a new instance
FirstTrain(tol, itr, st, Ur, Vr) ==
    /\ pc = "constructed"
    /\ TrainStart(tol, itr, st, Ur, Vr)

\* one iteration of the loop of train, lines 99-111, and the return of
\* train when the iteration is the last one
TrainIter ==
    /\ pc = "loop"
    /\ IF Len(pairs) = 0
         THEN \* np.random.randint(0, 0) raises ValueError
              /\ pc' = "raised"
              /\ op' = <<"randint", "ValueError">>
              /\ UNCHANGED <<model, params, locals, history, ret, nwrites>>
         ELSE \E r \in 1..Len(pairs) :
              LET iu == pairs[r][1]
                  ii == pairs[r][2]
                  P1 == Sgd(Params, iu, ii)
                  e1 == Error(P1)
                  d1 == Fabs(e1, err_new)
              IN  /\ U' = P1.U /\ V' = P1.V /\ bu' = P1.bu /\ bi' = P1.bi
                  /\ nsgd' = nsgd + 1
                  /\ op' = <<"sgd", iu, ii>>
                  /\ IF CheckDue(i, step)
                       THEN /\ err_old' = err_new
                            /\ err_new' = e1
                            /\ diff' = d1
                            /\ nchk' = nchk + 1
                            /\ chkPrev' = chkAt
                            /\ chkAt' = nsgd + 1
                            /\ IF Less(d1, atol)
                                 THEN pc' = "trained" /\ exit' = "break" /\ i' = i
                                 ELSE /\ i' = i + 1
                                      /\ IF InRange(i + 1, maxitr)
                                           THEN pc' = "loop" /\ exit' = "none"
                                           ELSE pc' = "trained" /\ exit' = "exhausted"
                       ELSE /\ UNCHANGED <<err_old, err_new, diff, nchk, chkPrev, chkAt>>
                            /\ i' = i + 1
                            /\ IF InRange(i + 1, maxitr)
                                 THEN pc' = "loop" /\ exit' = "none"
                                 ELSE pc' = "trained" /\ exit' = "exhausted"
                  /\ UNCHANGED <<model, attrs, atol, maxitr, step, pairs, U0, V0,
                                 ret, nwrites>>

----------------------------------------------------------------------------
(* the prediction queries and the accessors *)

\* numpy accepts the indices -n .. n-1 on an axis of length n
IndexOk(idx, n) == -n <= idx /\ idx < n

\* the position a numpy index denotes: a negative index counts from the end
Position(idx, n) == IF idx < 0 THEN idx + n ELSE idx

\* the float mu + x
AddMu(x) == IF mu.k = "fin" THEN Fin(mu.v + x) ELSE mu

\* rating that answers mu while the parameters do not exist
RatingResultUntrained(iu, ii) ==
    IF attrs # {"U", "V", "bu", "bi"} THEN <<"value", mu>>
    ELSE IF ~IndexOk(iu, user_size) \/ ~IndexOk(ii, item_size) THEN <<"IndexError">>
    ELSE LET p == Position(iu, user_size)
             q == Position(ii, item_size)
         IN  <<"value", AddMu(bu[p] + bi[q] + Dot(U[p], V[q], K))>>

\* what rating(iu, ii) returns or raises
RatingResult(iu, ii) ==
    IF attrs # {"U", "V", "bu", "bi"} THEN <<"AttributeError">>
    ELSE IF ~IndexOk(iu, user_size) \/ ~IndexOk(ii, item_size) THEN <<"IndexError">>
    ELSE LET p == Position(iu, user_size)
             q == Position(ii, item_size)
         IN  <<"value", AddMu(bu[p] + bi[q] + Dot(U[p], V[q], K))>>

\* what rating_matrix() returns or raises
RatingMatrixResult ==
    IF attrs # {"U", "V", "bu", "bi"} THEN <<"AttributeError">>
    ELSE <<"value", [p \in 0..(user_size-1) |-> [q \in 0..(item_size-1) |->
                        AddMu(bu[p] + bi[q] + Dot(U[p], V[q], K))]]>>

\* rating(iu, ii)
Rating(iu, ii) ==
    /\ pc \in {"constructed", "trained"}
    /\ ret' = RatingResult(iu, ii)
    /\ op' = <<"rating", iu, ii>>
    /\ UNCHANGED <<pc, model, params, locals, history, nwrites>>

\* rating_matrix()
RatingMatrix ==
    /\ pc \in {"constructed", "trained"}
    /\ ret' = RatingMatrixResult
    /\ op' = <<"rating_matrix">>
    /\ UNCHANGED <<pc, model, params, locals, history, nwrites>>

\* The properties return self.__U, self.__V, self.__bu, self.__bi themselves,
\* so the array the caller holds and the model's array are one object.
\* Stored is that array after the caller's assignment x[p][k] = v
\* (x[p] = v for bu and bi).
Stored(name, arr, p, k, v) ==
    IF name \in {"U", "V"} THEN [arr EXCEPT ![p][k] = v]
                           ELSE [arr EXCEPT ![p] = v]

\* x = mf.<name>; x[p][k] = v   (x[p] = v for bu and bi)
AccessorWrite(name, p, k, v) ==
    /\ pc = "trained"
    /\ nwrites < MaxWrites
    /\ p \in 0..((IF name \in {"U", "bu"} THEN user_size ELSE item_size) - 1)
    /\ k \in 0..(K-1)
    /\ U'  = IF name = "U"  THEN Stored(name, U, p, k, v)  ELSE U
    /\ V'  = IF name = "V"  THEN Stored(name, V, p, k, v)  ELSE V
    /\ bu' = IF name = "bu" THEN Stored(name, bu, p, k, v) ELSE bu
    /\ bi' = IF name = "bi" THEN Stored(name, bi, p, k, v) ELSE bi
    /\ nwrites' = nwrites + 1
    /\ op' = <<"write", name, p, k>>
    /\ UNCHANGED <<pc, model, attrs, locals, history, ret>>

----------------------------------------------------------------------------
(* Specification of construction and training *)

Next ==
    \/ \E Rm \in Matrices(RatingValues), Kv \in Ks, av \in As, bv \in Bs :
            Construct(Rm, Kv, av, bv)
    \/ \E tol \in Atols, itr \in 0..MaxItr, st \in 1..MaxStep,
          Ur \in RandArrays(user_size, RandValues),
          Vr \in RandArrays(item_size, RandValues) :
            FirstTrain(tol, itr, st, Ur, Vr)
    \/ TrainIter

Spec == Init /\ [][Next]_vars

(* Specification of the queries: a model with few training runs, trained    *)
(* any number of times, queried and written to through the accessors        *)

QueryNext ==
    \/ \E Rm \in Matrices(RatingValues), Kv \in Ks, av \in As, bv \in Bs :
            Construct(Rm, Kv, av, bv)
    \/ \E tol \in Atols, itr \in 0..QueryMaxItr,
          Ur \in RandArrays(user_size, QueryRand),
          Vr \in RandArrays(item_size, QueryRand) :
            TrainStart(tol, itr, 1, Ur, Vr)
    \/ TrainIter
    \/ \E iu \in QueryIndices, ii \in QueryIndices : Rating(iu, ii)
    \/ RatingMatrix
    \/ \E name \in {"U", "V", "bu", "bi"}, p \in WriteRows, k \in 0..(K-1),
          v \in WriteValues :
            AccessorWrite(name, p, k, v)

QuerySpec == Init /\ [][QueryNext]_vars

(* Specification of construction alone, over ratings of any sign *)

CtorNext ==
    \/ \E Rm \in Matrices(SignedValues), Kv \in Ks, av \in As, bv \in Bs :
            Construct(Rm, Kv, av, bv)
    \/ \E iu \in QueryIndices, ii \in QueryIndices : Rating(iu, ii)
    \/ RatingMatrix

CtorSpec == Init /\ [][CtorNext]_vars

----------------------------------------------------------------------------
(* Properties of sgd and train, checked under Spec *)

\* the step is a call sgd(op'[2], op'[3]) made by the loop of train
SgdCalled == pc = "loop" /\ op'[1] = "sgd"

AllAttrs == {"U", "V", "bu", "bi"}

\* C1: one call sgd(i, j) computes the new U[i], V[j], bu[i], bi[j] from the
\* values held before the call; the new V[j] is
\* V[j] - a*(-2*e*U[i] + b*V[j]) with the U[i] and the residual e of before
\* the call.
C1_SgdReadsPreCallValues ==
    [][SgdCalled =>
        LET iu == op'[2]
            ii == op'[3]
            e  == FP(R[iu][ii]) - Predict(Params, iu, ii)
        IN  /\ U'[iu] = [k \in 0..(K-1) |->
                    U[iu][k] - Mul(a, Mul(-2 * e, V[ii][k]) + Mul(b, U[iu][k]))]
            /\ V'[ii] = [k \in 0..(K-1) |->
                    V[ii][k] - Mul(a, Mul(-2 * e, U[iu][k]) + Mul(b, V[ii][k]))]
            /\ bu'[iu] = bu[iu] - Mul(a, -2 * e + Mul(b, bu[iu]))
            /\ bi'[ii] = bi[ii] - Mul(a, -2 * e + Mul(b, bi[ii]))]_vars

\* C2: a call sgd(i, j) leaves every row of U and entry of bu other than i,
\* every row of V and entry of bi other than j, and R, mu, the observed-mask,
\* K, a and b unchanged.
C2_SgdFrame ==
    [][SgdCalled =>
        LET iu == op'[2]
            ii == op'[3]
        IN  /\ \A p \in 0..(user_size-1) : p # iu => U'[p] = U[p] /\ bu'[p] = bu[p]
            /\ \A q \in 0..(item_size-1) : q # ii => V'[q] = V[q] /\ bi'[q] = bi[q]
            /\ UNCHANGED <<R, mu, obs_index, K, a, b>>]_vars

\* a first sgd call has changed U[i], V[j], bu[i] and bi[j], and the rows of
\* the other user and the other item are as they were drawn
C2_Witness ==
    /\ op[1] = "sgd" /\ nsgd = 1
    /\ U[op[2]] # U0[op[2]] /\ V[op[3]] # V0[op[3]]
    /\ bu[op[2]] # 0 /\ bi[op[3]] # 0
    /\ \E p \in 0..(user_size-1) : p # op[2] /\ U[p] = U0[p] /\ U0[p][0] # 0

HasObserved == \E c \in Cells(user_size, item_size) : R[c[1]][c[2]] # 0

C3_Outcome ==
    (pc # "start" /\ HasObserved) =>
        /\ pc # "raised"
        /\ nsgd <= maxitr
        /\ pc = "loop" => exit = "none" /\ nsgd = i /\ i < maxitr
        /\ pc = "trained" =>
            /\ exit \in {"break", "exhausted"}
            /\ exit = "break" => nchk >= 1 /\ Less(diff, atol) /\ chkAt = nsgd
            /\ exit = "exhausted" => nsgd = maxitr
            /\ attrs = AllAttrs
            /\ RatingResult(0, 0)[1] = "value"
            /\ RatingMatrixResult[1] = "value"

C4_CheckEveryStep ==
    nchk >= 1 => chkAt = nchk * step /\ chkPrev = (nchk - 1) * step

ZeroRow(p) == \A q \in 0..(item_size-1) : R[p][q] = 0
ZeroCol(q) == \A p \in 0..(user_size-1) : R[p][q] = 0

C10_Inv ==
    pc \in {"loop", "trained"} =>
        /\ \A r \in 1..Len(pairs) :
                /\ R[pairs[r][1]][pairs[r][2]] # 0
                /\ obs_index[pairs[r][1]][pairs[r][2]] = 1
        /\ op[1] = "sgd" =>
                /\ R[op[2]][op[3]] # 0
                /\ \E r \in 1..Len(pairs) : pairs[r] = <<op[2], op[3]>>
        /\ \A p \in 0..(user_size-1) : ZeroRow(p) => bu[p] = 0 /\ U[p] = U0[p]
        /\ \A q \in 0..(item_size-1) : ZeroCol(q) => bi[q] = 0 /\ V[q] = V0[q]

\* C10: every sgd update of a train run is applied to a pair with
\* R[i, j] # 0 taken from a pair list that does not change during the run; a
\* user with an all-zero row keeps bu = 0 and the U row drawn at the start,
\* and so does an item with an all-zero column.
C10_OnlyObservedPairs ==
    /\ []C10_Inv
    /\ [][pc = "loop" => pairs' = pairs]_vars

\* a run of two updates on an R whose user 1 has no rating and whose random
\* row is not zero
C10_Witness ==
    /\ pc = "trained" /\ nsgd >= 2
    /\ \E p \in 0..(user_size-1) : ZeroRow(p) /\ U0[p][0] # 0 /\ U[p] = U0[p]
    /\ \E p \in 0..(user_size-1) : ~ZeroRow(p) /\ U[p] # U0[p]

----------------------------------------------------------------------------
(* Properties of the queries and the accessors, checked under QuerySpec *)

\* C6: rating(i, j) returns a prediction only when 0 <= i < numUsers and
\* 0 <= j < numItems; every other index fails.
C6_RatingIndexInBounds ==
    (op[1] = "rating" /\ ret[1] = "value") =>
        /\ 0 <= op[2] /\ op[2] < user_size
        /\ 0 <= op[3] /\ op[3] < item_size

C8_Inv ==
    /\ pc = "constructed" => attrs = {}
    /\ (op[1] \in {"rating", "rating_matrix"} /\ attrs = {}) => ret = <<"AttributeError">>
    /\ pc \in {"loop", "trained"} => attrs = AllAttrs

\* C8: between construction and the first train call U, V, bu, bi do not
\* exist and every rating and rating_matrix call fails instead of returning a
\* value; once train has created them the model never is untrained again.
C8_NotTrained ==
    /\ []C8_Inv
    /\ [][attrs # {} => attrs' = attrs]_vars

\* rating called on an instance that was never trained
C8_WitnessUntrained ==
    /\ pc = "constructed" /\ op[1] = "rating" /\ ret = <<"AttributeError">>
    /\ IndexOk(op[2], user_size) /\ IndexOk(op[3], item_size)

\* C9: no caller write to an array obtained from an accessor changes the
\* model's U, V, bu, bi, nor what rating_matrix returns.
C9_AccessorsIsolated ==
    [][nwrites' = nwrites + 1 =>
            /\ UNCHANGED <<U, V, bu, bi>>
            /\ RatingMatrixResult' = RatingMatrixResult]_vars

----------------------------------------------------------------------------
(* Properties of construction, checked under CtorSpec *)

NonzeroCells == {c \in Cells(user_size, item_size) : R[c[1]][c[2]] # 0}

\* the mean of the nonzero cells of R
MeanOfObserved ==
    Fin((SumCells(R, user_size, item_size) * Scale)
            \div Cardinality(NonzeroCells))

\* C5: for every R with a nonzero entry, of any sign, mu is the sum of the
\* nonzero entries divided by the number of nonzero entries, the cells the
\* observed-mask marks.
C5_MuIsMeanOfObserved ==
    (pc = "constructed" /\ NonzeroCells # {}) => mu = MeanOfObserved

\* C7: constructing the model on an R without a nonzero entry fails; no
\* instance with an undefined mu exists.
C7_NoInstanceWithoutRatings ==
    pc = "constructed" => (NonzeroCells # {} /\ mu # NaN)

====
